---- MODULE Spec2Model ----
(***************************************************************************)
(* Model of reviewer.py: the file scanner (get_python_files), the four     *)
(* tree rules (LongFunctionRule, DeprecatedImportRule,                     *)
(* TooManyParametersRule, DeepNestingRule), the whole-file line-count      *)
(* check (check_large_file), the analyzer (analyze_file) and main.         *)
(*                                                                         *)
(* A syntax tree is a sequence of statement nodes in pre-order; node i     *)
(* names its parent (0 is the ast.Module root, which has no lineno).       *)
(* Nodes that no rule looks at (expressions, pass, assignments) are not    *)
(* represented; they only occupy source lines.                             *)
(***************************************************************************)
EXTENDS Integers, Sequences, FiniteSets, TLC

(* ---------------- bounds ---------------- *)
MaxNodes == 4
MaxRuleNodes == 3
MaxNestNodes == 5
MaxFiles == 2
MaxMods == 1
MaxDeepNodes == 1

(* ---------------- program constants ---------------- *)
MAX_LINES == 50
MAX_PARAMS == 5
MAX_DEPTH == 3
max_lines == 500
DEPRECATED_MODULES == {"imp", "optparse"}

(* ---------------- helpers on sequences ---------------- *)
Max(a, b) == IF a >= b THEN a ELSE b

Ids(n) == [i \in 1..n |-> i]

Repeat(x, n) == [i \in 1..n |-> x]

(* ---------------- syntax trees (what ast.parse returns) ---------------- *)
Module == 0

KindOf(t, i) == IF i = Module THEN "Module" ELSE t[i].kind

\* ast.iter_child_nodes(node): the children in source order
iter_child_nodes(t, i) == SelectSeq(Ids(Len(t)), LAMBDA j : t[j].parent = i)

\* The lines [lineno, lineno + extent) taken by statement i and its body.  A
\* plain compound statement takes its header line and the lines of its
\* children; a function body additionally holds simple statements, so that it
\* ends req lines after its header when its child statements need fewer.
RECURSIVE Extent(_, _, _)
RECURSIVE ExtentAll(_, _, _)
ExtentAll(par, lab, kids) ==
    IF kids = <<>> THEN 0
    ELSE Extent(par, lab, Head(kids)) + ExtentAll(par, lab, Tail(kids))

Extent(par, lab, i) ==
    LET kids  == SelectSeq(Ids(Len(lab)), LAMBDA j : par[j] = i)
        inner == ExtentAll(par, lab, kids)
    IN  IF lab[i].kind \in {"FunctionDef", "AsyncFunctionDef"}
        THEN 1 + Max(lab[i].req, inner)
        ELSE 1 + inner

\* node.lineno: the line after the parent's header for a first child, the
\* line after the previous sibling's last line otherwise
RECURSIVE LineOf(_, _, _)
LineOf(par, lab, i) ==
    LET before == SelectSeq(Ids(Len(lab)), LAMBDA j : par[j] = par[i] /\ j < i)
    IN  IF before = <<>>
        THEN (IF par[i] = Module THEN 1 ELSE LineOf(par, lab, par[i]) + 1)
        ELSE LET prev == before[Len(before)]
             IN  LineOf(par, lab, prev) + Extent(par, lab, prev)

\* the node objects of the tree: label, parent, lineno and end_lineno
BuildTree(par, lab) ==
    [i \in 1..Len(lab) |->
        [kind       |-> lab[i].kind,
         parent     |-> par[i],
         lineno     |-> LineOf(par, lab, i),
         end_lineno |-> LineOf(par, lab, i) + Extent(par, lab, i) - 1,
         name       |-> lab[i].name,
         args       |-> lab[i].args,
         kwonlyargs |-> lab[i].kwonlyargs,
         names      |-> lab[i].names,
         module     |-> lab[i].module]]

\* the ancestors of node i, itself included, and the root
RECURSIVE Chain(_, _)
Chain(par, i) == IF i = Module THEN {Module} ELSE {i} \cup Chain(par, par[i])

\* parent maps that list the nodes in pre-order
Shapes(n) ==
    {par \in [1..n -> 0..(n - 1)] :
        \A i \in 1..n : /\ par[i] < i
                        /\ i > 1 => par[i] \in Chain(par, i - 1)}

\* import statements have no statement children
LeafKinds == {"Import", "ImportFrom"}

\* the labellings of a shape
Labellings(Alphabet, par) ==
    {lab \in [1..Len(par) -> Alphabet] :
        \A i \in 1..Len(par) : par[i] # Module
                                 => lab[par[i]].kind \notin LeafKinds}

TreesOfSize(Alphabet, n) ==
    {BuildTree(sl[1], sl[2]) :
        sl \in {x \in Shapes(n) \X [1..n -> Alphabet] :
                   x[2] \in Labellings(Alphabet, x[1])}}

TreesUpTo(Alphabet, n) == UNION {TreesOfSize(Alphabet, k) : k \in 0..n}

\* the last source line a statement of the tree takes (0 for an empty module)
TreeLines(t) ==
    IF t = <<>> THEN 0
    ELSE CHOOSE m \in {t[i].end_lineno : i \in 1..Len(t)} :
             \A i \in 1..Len(t) : t[i].end_lineno <= m

(* ---------------- node labels ---------------- *)
Stmt(kind) ==
    [kind |-> kind, req |-> 0, name |-> "", args |-> <<>>,
     kwonlyargs |-> <<>>, names |-> <<>>, module |-> ""]

FunctionDef(req, nargs, nkwonly) ==
    [Stmt("FunctionDef") EXCEPT !.req = req, !.name = "f",
                                !.args = Repeat("a", nargs),
                                !.kwonlyargs = Repeat("k", nkwonly)]

\* async def: the node class ast.AsyncFunctionDef, with the fields of a def
AsyncFunctionDef(req, nargs, nkwonly) ==
    [FunctionDef(req, nargs, nkwonly) EXCEPT !.kind = "AsyncFunctionDef"]

Import(names) == [Stmt("Import") EXCEPT !.names = names]

ImportFrom(module) == [Stmt("ImportFrom") EXCEPT !.module = module]

(* ---------------- Rule base class ---------------- *)
\* Rule.report: the dictionary appended to self.issues
report(file_path, RULE_ID, CATEGORY, SEVERITY, message, line) ==
    [file     |-> file_path,
     rule_id  |-> RULE_ID,
     category |-> CATEGORY,
     severity |-> SEVERITY,
     message  |-> message,
     line     |-> line]

(* ---------------- 1. LongFunctionRule ---------------- *)
\* Each visit operator returns what the visit appends to self.issues.
RECURSIVE LongFunctionRule_visit(_, _, _)
RECURSIVE LongFunctionRule_visit_children(_, _, _)
LongFunctionRule_visit_children(file_path, t, kids) ==
    IF kids = <<>> THEN <<>>
    ELSE LongFunctionRule_visit(file_path, t, Head(kids))
             \o LongFunctionRule_visit_children(file_path, t, Tail(kids))

\* NodeVisitor.generic_visit: visit every child
LongFunctionRule_generic_visit(file_path, t, i) ==
    LongFunctionRule_visit_children(file_path, t, iter_child_nodes(t, i))

LongFunctionRule_report(file_path, t, i, length) ==
    report(file_path, "MAINT_001", "Maintainability", "MEDIUM",
           <<"Function '", t[i].name, "' too long (", ToString(length), " lines)">>,
           t[i].lineno)

LongFunctionRule_visit_FunctionDef(file_path, t, i) ==
    LET length == t[i].end_lineno - t[i].lineno
    IN  (IF length > MAX_LINES
         THEN <<LongFunctionRule_report(file_path, t, i, length)>>
         ELSE <<>>)
        \o LongFunctionRule_generic_visit(file_path, t, i)

\* NodeVisitor.visit: visit_<ClassName> when the rule defines it
LongFunctionRule_visit(file_path, t, i) ==
    IF KindOf(t, i) = "FunctionDef"
    THEN LongFunctionRule_visit_FunctionDef(file_path, t, i)
    ELSE LongFunctionRule_generic_visit(file_path, t, i)

(* ---------------- 2. DeprecatedImportRule ---------------- *)
DeprecatedImportRule_report(file_path, t, i, module) ==
    report(file_path, "DEPR_001", "Deprecated", "HIGH",
           <<"Deprecated module '", module, "' used">>, t[i].lineno)

RECURSIVE DeprecatedImportRule_aliases(_, _, _, _)
DeprecatedImportRule_aliases(file_path, t, i, names) ==
    IF names = <<>> THEN <<>>
    ELSE (IF Head(names) \in DEPRECATED_MODULES
          THEN <<DeprecatedImportRule_report(file_path, t, i, Head(names))>>
          ELSE <<>>)
         \o DeprecatedImportRule_aliases(file_path, t, i, Tail(names))

\* mutant: only the first alias of the statement is looked at
DeprecatedImportRule_visit_Import_first(file_path, t, i) ==
    IF t[i].names # <<>> /\ t[i].names[1] \in DEPRECATED_MODULES
    THEN <<DeprecatedImportRule_report(file_path, t, i, t[i].names[1])>>
    ELSE <<>>

DeprecatedImportRule_visit_Import(file_path, t, i) ==
    DeprecatedImportRule_aliases(file_path, t, i, t[i].names)

DeprecatedImportRule_visit_ImportFrom(file_path, t, i) ==
    IF t[i].module \in DEPRECATED_MODULES
    THEN <<DeprecatedImportRule_report(file_path, t, i, t[i].module)>>
    ELSE <<>>

RECURSIVE DeprecatedImportRule_visit(_, _, _)
RECURSIVE DeprecatedImportRule_visit_children(_, _, _)
DeprecatedImportRule_visit_children(file_path, t, kids) ==
    IF kids = <<>> THEN <<>>
    ELSE DeprecatedImportRule_visit(file_path, t, Head(kids))
             \o DeprecatedImportRule_visit_children(file_path, t, Tail(kids))

DeprecatedImportRule_generic_visit(file_path, t, i) ==
    DeprecatedImportRule_visit_children(file_path, t, iter_child_nodes(t, i))

DeprecatedImportRule_visit(file_path, t, i) ==
    CASE KindOf(t, i) = "Import" ->
             DeprecatedImportRule_visit_Import(file_path, t, i)
      [] KindOf(t, i) = "ImportFrom" ->
             DeprecatedImportRule_visit_ImportFrom(file_path, t, i)
      [] OTHER -> DeprecatedImportRule_generic_visit(file_path, t, i)

(* ---------------- 3. TooManyParametersRule ---------------- *)
RECURSIVE TooManyParametersRule_visit(_, _, _)
RECURSIVE TooManyParametersRule_visit_children(_, _, _)
TooManyParametersRule_visit_children(file_path, t, kids) ==
    IF kids = <<>> THEN <<>>
    ELSE TooManyParametersRule_visit(file_path, t, Head(kids))
             \o TooManyParametersRule_visit_children(file_path, t, Tail(kids))

TooManyParametersRule_generic_visit(file_path, t, i) ==
    TooManyParametersRule_visit_children(file_path, t, iter_child_nodes(t, i))

\* len(node.args.args): the positional-or-keyword parameters only
TooManyParametersRule_visit_FunctionDef(file_path, t, i) ==
    (IF Len(t[i].args) > MAX_PARAMS
     THEN <<report(file_path, "MAINT_002", "Maintainability", "MEDIUM",
                   <<"Function '", t[i].name, "' has too many parameters (",
                     ToString(Len(t[i].args)), ")">>,
                   t[i].lineno)>>
     ELSE <<>>)
    \o TooManyParametersRule_generic_visit(file_path, t, i)

TooManyParametersRule_visit(file_path, t, i) ==
    IF KindOf(t, i) = "FunctionDef"
    THEN TooManyParametersRule_visit_FunctionDef(file_path, t, i)
    ELSE TooManyParametersRule_generic_visit(file_path, t, i)

(* ---------------- 4. DeepNestingRule ---------------- *)
BranchKinds == {"If", "For", "While"}

\* mutant: the depth is compared with >= instead of >
DeepNestingRule_here_ge(file_path, t, i, depth) ==
    IF KindOf(t, i) \in BranchKinds /\ depth + 1 >= MAX_DEPTH
    THEN <<report(file_path, "SMELL_001", "Code Smell", "MEDIUM",
                  <<"Deep nesting detected">>, t[i].lineno)>>
    ELSE <<>>

\* what visit reports for the node itself, depth being the depth passed in
DeepNestingRule_here(file_path, t, i, depth) ==
    IF KindOf(t, i) \in BranchKinds /\ depth + 1 > MAX_DEPTH
    THEN <<report(file_path, "SMELL_001", "Code Smell", "MEDIUM",
                  <<"Deep nesting detected">>, t[i].lineno)>>
    ELSE <<>>

RECURSIVE DeepNestingRule_visit(_, _, _, _)
RECURSIVE DeepNestingRule_visit_children(_, _, _, _)
DeepNestingRule_visit_children(file_path, t, kids, depth) ==
    IF kids = <<>> THEN <<>>
    ELSE DeepNestingRule_visit(file_path, t, Head(kids), depth)
             \o DeepNestingRule_visit_children(file_path, t, Tail(kids), depth)

\* visit(node, depth=0): depth grows on If/For/While only and is passed down
DeepNestingRule_visit(file_path, t, i, depth) ==
    LET d == IF KindOf(t, i) \in BranchKinds THEN depth + 1 ELSE depth
    IN  DeepNestingRule_here(file_path, t, i, depth)
            \o DeepNestingRule_visit_children(file_path, t,
                                              iter_child_nodes(t, i), d)

(* ---------------- the registry of analyze_file ---------------- *)
rules == <<"LongFunctionRule", "DeprecatedImportRule",
           "TooManyParametersRule", "DeepNestingRule">>

\* rule = R(file_path); rule.visit(tree); rule.issues
RuleIssues(r, file_path, t) ==
    CASE r = "LongFunctionRule"      -> LongFunctionRule_visit(file_path, t, Module)
      [] r = "DeprecatedImportRule"  -> DeprecatedImportRule_visit(file_path, t, Module)
      [] r = "TooManyParametersRule" -> TooManyParametersRule_visit(file_path, t, Module)
      [] r = "DeepNestingRule"       -> DeepNestingRule_visit(file_path, t, Module, 0)

(* ---------------- files ---------------- *)
\* What a file holds: whether open() succeeds, whether its bytes decode as
\* UTF-8, len(readlines()), what ast.parse does on its text ("ok", or the
\* exception it raises), the statements of its tree, and the rules whose visit
\* of the tree runs out of stack (the tree has a chain of nodes too long for
\* the frames the interpreter has left when analyze_file is called).
Unreadable ==
    [readable |-> FALSE, utf8 |-> TRUE, lines |-> 0, parse |-> "ok",
     tree |-> <<>>, overflow |-> {}]

Undecodable ==
    [readable |-> TRUE, utf8 |-> FALSE, lines |-> 0, parse |-> "ok",
     tree |-> <<>>, overflow |-> {}]

Text(n, outcome, t, ov) ==
    [readable |-> TRUE, utf8 |-> TRUE, lines |-> n, parse |-> outcome,
     tree |-> t, overflow |-> ov]

\* the exceptions of ast.parse that except SyntaxError does not catch: the
\* tree is too deep to build, the parser's stack is full
ParseErrors == {"RecursionError", "MemoryError"}

\* str.endswith
endswith(str, suffix) ==
    /\ Len(str) >= Len(suffix)
    /\ SubSeq(str, Len(str) - Len(suffix) + 1, Len(str)) = suffix

DotPy == <<".", "p", "y">>

\* os.path.join(root, file)
join(root, file) ==
    IF file # <<>> /\ Head(file) = "/" THEN file
    ELSE IF root = <<>> \/ root[Len(root)] = "/" THEN root \o file
    ELSE root \o <<"/">> \o file

(* ---------------- state ---------------- *)
VARIABLES
    fs,          \* what args.path denotes: kind "file", "dir" or "missing",
                 \* and the files there (name, content)
    path,        \* args.path
    env,         \* args.output, whether it can be opened for writing, and
                 \* the encoding of sys.stdout
    mpc,         \* position of main
    files,       \* main: files
    fi,          \* main: index of the file the for loop is at
    all_issues,  \* main: all_issues
    output,      \* the file args.output: written or not, and its data
    stdout,      \* the lines printed
    pc,          \* position of analyze_file
    issues,      \* analyze_file: issues
    tree,        \* analyze_file: tree, its statements
    overflow,    \* analyze_file: tree, the rules whose visit of it overflows
    ri,          \* analyze_file: index of the rule the for loop is at
    exc,         \* the exception that ended the run, "none" if none
    seen,        \* the contents the analyzed file has had during the call
    mods         \* number of modifications by other processes so far

vars == <<fs, path, env, mpc, files, fi, all_issues, output, stdout,
          pc, issues, tree, overflow, ri, exc, seen, mods>>

mainVars == <<mpc, files, fi, all_issues, output, stdout>>

\* os.path.isfile(path)
isfile == fs.kind = "file"

\* the paths os.walk(path) lists; nothing when path is not a directory
walk == IF fs.kind = "dir"
        THEN [k \in 1..Len(fs.entries) |-> join(path, fs.entries[k].name)]
        ELSE <<>>

get_python_files ==
    IF isfile /\ endswith(path, DotPy)
    THEN <<path>>
    ELSE SelectSeq(walk, LAMBDA f : endswith(f, DotPy))

\* the content now stored under file_path
ContentOf(file_path) ==
    IF fs.kind = "file" THEN fs.entries[1].content
    ELSE LET k == CHOOSE k \in 1..Len(fs.entries) :
                      join(path, fs.entries[k].name) = file_path
         IN  fs.entries[k].content

file_path == files[fi]

(* ---------------- 5. check_large_file ---------------- *)
\* mutant: the limit is compared with >= instead of >
check_large_file_ge(fp, lines) ==
    IF lines >= max_lines
    THEN <<report(fp, "ORG_001", "Organization", "MEDIUM",
                  <<"File too large (", ToString(lines), " lines)">>, 1)>>
    ELSE <<>>

\* the dictionary returned for len(lines) lines, as a sequence of one; the
\* empty sequence stands for None
check_large_file(fp, lines) ==
    IF lines > max_lines
    THEN <<report(fp, "ORG_001", "Organization", "MEDIUM",
                  <<"File too large (", ToString(lines), " lines)">>, 1)>>
    ELSE <<>>

\* the exception open()/read() raises on the content, "none" if none
ReadError(c) ==
    IF ~c.readable THEN "OSError"
    ELSE IF ~c.utf8 THEN "UnicodeDecodeError"
    ELSE "none"

(* ---------------- main and analyze_file ---------------- *)
\* an exception leaves analyze_file and, uncaught, ends main
Raise(e) ==
    /\ exc' = e
    /\ pc' = "raised"
    /\ mpc' = "crashed"

\* main: files = get_python_files(args.path); all_issues = []
GetPythonFiles ==
    /\ mpc = "start"
    /\ files' = get_python_files
    /\ fi' = 1
    /\ all_issues' = <<>>
    /\ mpc' = "loop"
    /\ UNCHANGED <<fs, path, env, output, stdout, pc, issues, tree, overflow, ri, exc, seen, mods>>

\* main: the call analyze_file(file); analyze_file: issues = []
CallAnalyze ==
    /\ mpc = "loop"
    /\ pc = "idle"
    /\ fi <= Len(files)
    /\ issues' = <<>>
    /\ tree' = <<>>
    /\ overflow' = {}
    /\ seen' = {ContentOf(file_path)}
    /\ pc' = "check"
    /\ UNCHANGED <<fs, path, env, mainVars, ri, exc, mods>>

\* analyze_file: large_file_issue = check_large_file(file_path), appended
\* when it is not None
CheckLargeFile ==
    /\ pc = "check"
    /\ LET c == ContentOf(file_path)
       IN  IF ReadError(c) # "none"
           THEN /\ Raise(ReadError(c))
                /\ UNCHANGED <<files, fi, all_issues, output, stdout, issues>>
           ELSE /\ issues' = issues \o check_large_file(file_path, c.lines)
                /\ pc' = "parse"
                /\ UNCHANGED <<mainVars, exc>>
    /\ UNCHANGED <<fs, path, env, tree, overflow, ri, seen, mods>>

\* mutant: a syntax error discards the result of the line-count check
ParseFailed_drop(found) == <<>>

\* analyze_file: what except SyntaxError returns
ParseFailed(found) == found

\* analyze_file: tree = ast.parse(f.read()) on a second open of the file
ReadAndParse ==
    /\ pc = "parse"
    /\ LET c == ContentOf(file_path)
       IN  CASE ReadError(c) # "none" ->
                    /\ Raise(ReadError(c))
                    /\ UNCHANGED <<files, fi, all_issues, output, stdout,
                                   issues, tree, overflow, ri>>
             [] ReadError(c) = "none" /\ c.parse = "SyntaxError" ->
                    /\ issues' = ParseFailed(issues)
                    /\ pc' = "ret"
                    /\ UNCHANGED <<mainVars, tree, overflow, ri, exc>>
             [] ReadError(c) = "none" /\ c.parse \in ParseErrors ->
                    /\ Raise(c.parse)
                    /\ UNCHANGED <<files, fi, all_issues, output, stdout,
                                   issues, tree, overflow, ri>>
             [] OTHER ->
                    /\ tree' = c.tree
                    /\ overflow' = c.overflow
                    /\ ri' = 1
                    /\ pc' = "rules"
                    /\ UNCHANGED <<mainVars, issues, exc>>
    /\ UNCHANGED <<fs, path, env, seen, mods>>

\* mutant: the issues of a rule are put in front of those found so far
extend_front(found, more) == more \o found

\* list.extend
extend(found, more) == found \o more

\* analyze_file: one turn of "for rule in rules"; after the last, return
RunRule ==
    /\ pc = "rules"
    /\ ri <= Len(rules)
    /\ IF rules[ri] \in overflow
       THEN /\ Raise("RecursionError")
            /\ UNCHANGED <<files, fi, all_issues, output, stdout, issues, ri>>
       ELSE /\ issues' = extend(issues, RuleIssues(rules[ri], file_path, tree))
            /\ ri' = ri + 1
            /\ pc' = IF ri = Len(rules) THEN "ret" ELSE "rules"
            /\ UNCHANGED <<mainVars, exc>>
    /\ UNCHANGED <<fs, path, env, tree, overflow, seen, mods>>

\* main: all_issues.extend(<the sequence analyze_file returned>)
CollectIssues ==
    /\ mpc = "loop"
    /\ pc = "ret"
    /\ all_issues' = extend(all_issues, issues)
    /\ fi' = fi + 1
    /\ pc' = "idle"
    /\ UNCHANGED <<fs, path, env, mpc, files, output, stdout, issues, tree, overflow, ri,
                   exc, seen, mods>>

\* the character U+2714 the two printed lines start with
Tick == "U+2714"

\* the two lines main prints
Summary ==
    <<<<Tick, " Analysis complete. Report saved to ", env.output>>,
      <<Tick, " Issues found: ", ToString(Len(all_issues))>>>>

\* print(line) raises UnicodeEncodeError: sys.stdout cannot encode the line
PrintRaises(line) ==
    env.encoding = "ascii" /\ \E k \in 1..Len(line) : line[k] = Tick

\* main: json.dump(all_issues) into args.output, then the two prints; a
\* failing open or print ends main with the exception
WriteReport ==
    /\ mpc = "loop"
    /\ pc = "idle"
    /\ fi > Len(files)
    /\ IF ~env.writable
       THEN /\ exc' = "OSError"
            /\ mpc' = "crashed"
            /\ UNCHANGED <<output, stdout>>
       ELSE /\ output' = [written |-> TRUE, name |-> env.output, data |-> all_issues]
            /\ IF PrintRaises(Summary[1])
               THEN /\ exc' = "UnicodeEncodeError"
                    /\ mpc' = "crashed"
                    /\ UNCHANGED stdout
               ELSE /\ stdout' = stdout \o Summary
                    /\ mpc' = "done"
                    /\ UNCHANGED exc
    /\ UNCHANGED <<fs, path, env, files, fi, all_issues, pc, issues, tree, overflow, ri,
                   seen, mods>>

Next ==
    \/ GetPythonFiles
    \/ CallAnalyze
    \/ CheckLargeFile
    \/ ReadAndParse
    \/ RunRule
    \/ CollectIssues
    \/ WriteReport

\* the module of the one statement "import imp"
ImportImp == BuildTree(<<Module>>, <<Import(<<"imp">>)>>)

\* the contents a file under analysis is given by other processes
RaceContents ==
    {Text(max_lines + 1, "ok", <<>>, {}), Text(1, "ok", ImportImp, {}),
     Text(max_lines + 1, "SyntaxError", <<>>, {}),
     Text(max_lines, "ok", ImportImp, {}), Undecodable}

\* another process rewrites, truncates or removes the file under analysis
EnvModify ==
    /\ pc \in {"check", "parse", "rules"}
    /\ mods < MaxMods
    /\ \E c \in RaceContents \cup {Unreadable} :
          /\ c # ContentOf(file_path)
          /\ fs' = [fs EXCEPT !.entries[1].content = c]
          /\ seen' = seen \cup {c}
    /\ mods' = mods + 1
    /\ UNCHANGED <<path, env, mainVars, pc, issues, tree, overflow, ri, exc>>

NextRace == Next \/ EnvModify

\* rule = R(file_path); rule.visit(tree), for one rule on its own
VisitTree ==
    /\ pc = "visit"
    /\ IF rules[ri] \in overflow
       THEN /\ exc' = "RecursionError"
            /\ pc' = "raised"
            /\ UNCHANGED issues
       ELSE /\ issues' = RuleIssues(rules[ri], file_path, tree)
            /\ pc' = "visited"
            /\ UNCHANGED exc
    /\ UNCHANGED <<fs, path, env, mainVars, tree, overflow, ri, seen, mods>>

NextRule == VisitTree

(* ---------------- initial states ---------------- *)
PyName == <<"a">> \o DotPy
OtherPyName == <<"b">> \o DotPy
TxtName == <<"n", ".", "t", "x", "t">>
DirName == <<"d">>
DirNameSlash == <<"d", "/">>

LineCounts == {0, max_lines, max_lines + 1}

\* The sets of rules whose visit can overflow on a tree of a few statements,
\* where a long chain is a chain of expression nodes. A NodeVisitor rule takes
\* two frames a node and DeepNestingRule one, so DeepNestingRule overflows
\* last; visit_FunctionDef is one more frame for LongFunctionRule and
\* TooManyParametersRule on a chain through a def, so these two can overflow
\* where DeprecatedImportRule does not.
Overflows(t) ==
    {{}, {rules[1], rules[2], rules[3]}, {rules[1], rules[2], rules[3], rules[4]}}
        \cup {{rules[1], rules[3]} : i \in {j \in 1..Len(t) : t[j].kind = "FunctionDef"}}

\* the overflows tried on a tree
OverflowsFor(t) == IF Len(t) <= MaxDeepNodes THEN Overflows(t) ELSE {{}}

\* the statements of the files main is run on
MainAlphabet ==
    {Stmt("If"), FunctionDef(MAX_LINES + 1, MAX_PARAMS + 1, 0), Import(<<"imp">>)}

\* a file has at least the lines its statements take
ParsedContents(Trees) ==
    {c \in {Text(n, "ok", t, {}) : n \in LineCounts, t \in Trees} :
        c.lines >= TreeLines(c.tree)}
        \cup UNION {{Text(max_lines + 1, "ok", t, ov) : ov \in OverflowsFor(t)} :
                       t \in Trees}

MainContents ==
    {Unreadable, Undecodable}
        \cup {Text(n, "SyntaxError", <<>>, {}) : n \in LineCounts}
        \cup {Text(max_lines + 1, e, <<>>, {}) : e \in ParseErrors}
        \cup ParsedContents(TreesUpTo(MainAlphabet, MaxNodes))

\* the contents of the files of a directory
DirContents ==
    {Text(1, "ok", ImportImp, {}),
     Text(max_lines + 1, "SyntaxError", <<>>, {}), Undecodable}

DirNames == {PyName, OtherPyName, TxtName}

Entries(n) ==
    {e \in [1..n -> [name : DirNames, content : DirContents]] :
        \A i, j \in 1..n : i # j => e[i].name # e[j].name}

OneFile(name, c) ==
    [fs   |-> [kind |-> "file", entries |-> <<[name |-> name, content |-> c]>>],
     path |-> name]

Worlds ==
    {OneFile(PyName, c) : c \in MainContents}
        \cup {OneFile(TxtName, c) : c \in DirContents}
        \cup {[fs |-> [kind |-> "missing", entries |-> <<>>], path |-> p] :
                 p \in {PyName, DirName}}
        \cup {[fs |-> [kind |-> "dir", entries |-> e], path |-> p] :
                 e \in UNION {Entries(n) : n \in 0..MaxFiles},
                 p \in {DirName, DirNameSlash}}

\* the default: report.json in a writable directory, a UTF-8 terminal
DefaultEnv == [output |-> "report.json", writable |-> TRUE, encoding |-> "utf-8"]

\* the default, and -o out.json, an output that cannot be opened, and a
\* stdout that encodes ASCII only
Envs ==
    {DefaultEnv,
     [DefaultEnv EXCEPT !.output = "out.json"],
     [DefaultEnv EXCEPT !.writable = FALSE],
     [DefaultEnv EXCEPT !.encoding = "ascii"]}

\* the state main starts in
Start(w, e) ==
    /\ fs = w.fs
    /\ path = w.path
    /\ env = e
    /\ mpc = "start"
    /\ files = <<>>
    /\ fi = 1
    /\ all_issues = <<>>
    /\ output = [written |-> FALSE, name |-> "", data |-> <<>>]
    /\ stdout = <<>>
    /\ pc = "idle"
    /\ issues = <<>>
    /\ tree = <<>>
    /\ overflow = {}
    /\ ri = 1
    /\ exc = "none"
    /\ seen = {}
    /\ mods = 0

Init == \E w \in Worlds, e \in Envs : Start(w, e)

Spec == Init /\ [][Next]_vars

InitRace == \E c \in RaceContents : Start(OneFile(PyName, c), DefaultEnv)

SpecRace == InitRace /\ [][NextRace]_vars

\* the state in which rule number r is about to visit tree t of file a.py,
\* on which the visits of the rules ov overflow
RuleStart(r, t, ov) ==
    /\ fs = OneFile(PyName, Text(max_lines, "ok", t, ov)).fs
    /\ path = PyName
    /\ env = DefaultEnv
    /\ mpc = "loop"
    /\ files = <<PyName>>
    /\ fi = 1
    /\ all_issues = <<>>
    /\ output = [written |-> FALSE, name |-> "", data |-> <<>>]
    /\ stdout = <<>>
    /\ pc = "visit"
    /\ issues = <<>>
    /\ tree = t
    /\ overflow = ov
    /\ ri = r
    /\ exc = "none"
    /\ seen = {}
    /\ mods = 0

NestingAlphabet ==
    {Stmt("If"), Stmt("For"), Stmt("While"), FunctionDef(0, 0, 0)}

InitNesting ==
    \E n \in 0..MaxNestNodes : \E par \in Shapes(n) :
        \E lab \in Labellings(NestingAlphabet, par) : \E ov \in OverflowsFor(BuildTree(par, lab)) :
            LET t == BuildTree(par, lab) IN RuleStart(4, t, ov)

SpecNesting == InitNesting /\ [][NextRule]_vars

FunctionAlphabet ==
    {FunctionDef(req, na, nk) :
        req \in {MAX_LINES, MAX_LINES + 1},
        na \in {MAX_PARAMS, MAX_PARAMS + 1},
        nk \in {0, 1}}
        \cup {AsyncFunctionDef(MAX_LINES, MAX_PARAMS, 0),
              AsyncFunctionDef(MAX_LINES + 1, MAX_PARAMS + 1, 0)}
        \cup {Stmt("If")}

InitFunctions ==
    \E n \in 0..MaxRuleNodes : \E par \in Shapes(n) :
        \E lab \in Labellings(FunctionAlphabet, par) : \E r \in {1, 3} :
            \E ov \in OverflowsFor(BuildTree(par, lab)) :
                LET t == BuildTree(par, lab) IN RuleStart(r, t, ov)

SpecFunctions == InitFunctions /\ [][NextRule]_vars

ImportAlphabet ==
    {Import(ns) : ns \in {<<"imp">>, <<"json">>, <<"json", "optparse">>,
                          <<"imp", "optparse">>}}
        \cup {ImportFrom(m) : m \in {"optparse", "json"}}
        \cup {Stmt("If"), FunctionDef(0, 0, 0)}

InitImports ==
    \E n \in 0..MaxRuleNodes : \E par \in Shapes(n) :
        \E lab \in Labellings(ImportAlphabet, par) : \E ov \in OverflowsFor(BuildTree(par, lab)) :
            LET t == BuildTree(par, lab) IN RuleStart(2, t, ov)

SpecImports == InitImports /\ [][NextRule]_vars

(* ---------------- what analyze_file returns for one content ---------------- *)
\* the sequences analyze_file returns when every read of the call sees the
\* content c: none when a read, the parse or the visit of a rule raises
Returns(fp, c) ==
    IF ReadError(c) # "none" \/ c.parse \in ParseErrors THEN {}
    ELSE IF c.parse = "SyntaxError" THEN {check_large_file(fp, c.lines)}
    ELSE IF c.overflow # {} THEN {}
    ELSE {check_large_file(fp, c.lines)
              \o RuleIssues(rules[1], fp, c.tree) \o RuleIssues(rules[2], fp, c.tree)
              \o RuleIssues(rules[3], fp, c.tree) \o RuleIssues(rules[4], fp, c.tree)}

(* ---------------- vocabulary of the properties ---------------- *)
\* the diagnostics of a sequence that carry the rule id
OfRule(ds, id) == SelectSeq(ds, LAMBDA d : d.rule_id = id)

\* number of diagnostics of a sequence reported at the line
CountAt(ds, line) == Len(SelectSeq(ds, LAMBDA d : d.line = line))

Parents(t) == [j \in 1..Len(t) |-> t[j].parent]

\* number of If/For/While nodes on the path from the root to node i, i included
BranchDepth(t, i) ==
    Cardinality({j \in Chain(Parents(t), i) \ {Module} : t[j].kind \in BranchKinds})

\* the content of the file analyze_file is called on
Analyzed == ContentOf(file_path)

TreeRuleIds == {"MAINT_001", "DEPR_001", "MAINT_002", "SMELL_001"}

\* position of a rule id in the order of the result
Rank(id) ==
    CASE id = "ORG_001" -> 0
      [] id = "MAINT_001" -> 1
      [] id = "DEPR_001" -> 2
      [] id = "MAINT_002" -> 3
      [] id = "SMELL_001" -> 4

\* C1: analyze_file never raises: no exception ever leaves it, whatever the
\* file is (unreadable, not UTF-8, not parseable).
C1_NeverRaises == pc # "raised"

\* C2: when parsing fails with a syntax error, analyze_file returns exactly
\* the result of the line-count check: the one ORG_001 diagnostic when the file
\* has more than 500 lines, nothing otherwise, and nothing from a tree rule.
C2_ParseFailureReturnsLineCheck ==
    (pc = "ret" /\ Analyzed.parse = "SyntaxError") =>
        /\ Analyzed.lines > max_lines =>
              /\ Len(issues) = 1
              /\ issues[1].rule_id = "ORG_001"
              /\ issues[1].line = 1
        /\ Analyzed.lines <= max_lines => issues = <<>>
        /\ \A k \in 1..Len(issues) : issues[k].rule_id \notin TreeRuleIds

C2_Witness ==
    /\ pc = "ret"
    /\ Analyzed.parse = "SyntaxError"
    /\ Analyzed.lines = max_lines + 1
    /\ Len(issues) = 1

\* C3: the result of analyze_file holds exactly one ORG_001 diagnostic, at
\* line 1, if and only if the file has more than 500 lines (501 does, 500 does
\* not), whether the content parses or not.
C3_OrgIffMoreThan500Lines ==
    pc = "ret" =>
        /\ Len(OfRule(issues, "ORG_001")) = (IF Analyzed.lines > 500 THEN 1 ELSE 0)
        /\ \A k \in 1..Len(issues) :
              issues[k].rule_id = "ORG_001" => issues[k].line = 1

C3_Witness ==
    /\ pc = "ret"
    /\ Analyzed.parse = "ok"
    /\ Analyzed.tree # <<>>
    /\ Analyzed.lines = 501
    /\ Len(OfRule(issues, "ORG_001")) = 1

\* C4: the Deep-Nesting rule reports a node, once and at its line, if and only
\* if the node is an If, For or While and more than 3 If/For/While nodes lie on
\* the path from the root to it, the node included; it reports nothing else.
C4_DeepNestingIffDepthOver3 ==
    (pc = "visited" /\ rules[ri] = "DeepNestingRule") =>
        /\ \A i \in 1..Len(tree) :
              CountAt(issues, tree[i].lineno) =
                  (IF tree[i].kind \in {"If", "For", "While"} /\ BranchDepth(tree, i) > 3
                   THEN 1 ELSE 0)
        /\ \A k \in 1..Len(issues) :
              /\ issues[k].rule_id = "SMELL_001"
              /\ \E i \in 1..Len(tree) : tree[i].lineno = issues[k].line

C4_Witness ==
    /\ pc = "visited"
    /\ rules[ri] = "DeepNestingRule"
    /\ Len(issues) = 1
    /\ \E i \in 1..Len(tree) :
          /\ tree[i].kind = "For"
          /\ BranchDepth(tree, i) = 4
          /\ issues[1].line = tree[i].lineno
          /\ tree[tree[i].parent].kind = "FunctionDef"
          /\ \E j \in Chain(Parents(tree), i) \ {Module} : tree[j].kind = "While"

\* the kinds of the function-definition nodes: def and async def
FunctionDefinitionKinds == {"FunctionDef", "AsyncFunctionDef"}

\* C5: the Long-Function rule reports each function definition, def or async
\* def, whose end_line - start_line is more than 50 exactly once, at its
\* starting line, wherever it is nested, and reports nothing for the other
\* nodes.
C5_LongFunctionOncePerDefinition ==
    (pc = "visited" /\ rules[ri] = "LongFunctionRule") =>
        /\ \A i \in 1..Len(tree) :
              CountAt(issues, tree[i].lineno) =
                  (IF /\ tree[i].kind \in FunctionDefinitionKinds
                      /\ tree[i].end_lineno - tree[i].lineno > 50
                   THEN 1 ELSE 0)
        /\ \A k \in 1..Len(issues) :
              /\ issues[k].rule_id = "MAINT_001"
              /\ \E i \in 1..Len(tree) : tree[i].lineno = issues[k].line

\* the parameters a function definition declares
DeclaredParameters(node) == Len(node.args) + Len(node.kwonlyargs)

\* C6: the Too-Many-Parameters rule reports a function definition, once, if and
\* only if the function declares more than 5 parameters, and the message holds
\* the number of declared parameters.
C6_TooManyParametersIffOver5 ==
    (pc = "visited" /\ rules[ri] = "TooManyParametersRule") =>
        \A i \in 1..Len(tree) :
            tree[i].kind = "FunctionDef" =>
                /\ CountAt(issues, tree[i].lineno) =
                      (IF DeclaredParameters(tree[i]) > 5 THEN 1 ELSE 0)
                /\ \A k \in 1..Len(issues) :
                      issues[k].line = tree[i].lineno =>
                          \E m \in 1..Len(issues[k].message) :
                              issues[k].message[m] = ToString(DeclaredParameters(tree[i]))

\* C7: the Deprecated-Import rule reports an import or import-from statement,
\* at its line, exactly when a module it imports is imp or optparse; a
\* statement naming one such module is reported exactly once, and no other
\* node is reported.
C7_DeprecatedImportIffDenylisted ==
    (pc = "visited" /\ rules[ri] = "DeprecatedImportRule") =>
        /\ \A i \in 1..Len(tree) :
              LET n == CountAt(issues, tree[i].lineno)
                  imported == IF tree[i].kind = "Import"
                              THEN {tree[i].names[k] : k \in 1..Len(tree[i].names)}
                              ELSE IF tree[i].kind = "ImportFrom" THEN {tree[i].module}
                              ELSE {}
              IN  /\ n >= 1 <=> imported \cap {"imp", "optparse"} # {}
                  /\ (tree[i].kind = "Import" /\ tree[i].names = <<"imp">>) => n = 1
                  /\ (tree[i].kind = "ImportFrom" /\ tree[i].module = "optparse") => n = 1
        /\ \A k \in 1..Len(issues) :
              /\ issues[k].rule_id = "DEPR_001"
              /\ \E i \in 1..Len(tree) : tree[i].lineno = issues[k].line

C7_Witness ==
    /\ pc = "visited"
    /\ rules[ri] = "DeprecatedImportRule"
    /\ Len(issues) = 2
    /\ \E i, j \in 1..Len(tree) :
          /\ tree[i].kind = "Import" /\ tree[i].names = <<"json", "optparse">>
          /\ tree[i].parent # Module
          /\ CountAt(issues, tree[i].lineno) = 1
          /\ tree[j].kind = "ImportFrom" /\ tree[j].module = "optparse"
          /\ CountAt(issues, tree[j].lineno) = 1

\* C8: in a result of analyze_file the ORG_001 diagnostic comes first, then
\* the diagnostics of Long-Function, Deprecated-Import, Too-Many-Parameters
\* and Deep-Nesting, each rule's as one block, in that order; inside a block
\* they are in the pre-order of the nodes, and a block holds what one run of
\* its rule on the tree reports.
C8_ResultOrder ==
    (pc = "ret" /\ Analyzed.parse = "ok") =>
        /\ \A k \in 1..(Len(issues) - 1) :
              /\ Rank(issues[k].rule_id) <= Rank(issues[k + 1].rule_id)
              /\ issues[k].rule_id = issues[k + 1].rule_id
                     => issues[k].line <= issues[k + 1].line
        /\ \A r \in 1..4 :
              LET id == <<"MAINT_001", "DEPR_001", "MAINT_002", "SMELL_001">>[r]
              IN  OfRule(issues, id) = RuleIssues(rules[r], file_path, tree)

C8_Witness ==
    /\ pc = "ret"
    /\ Analyzed.parse = "ok"
    /\ Len(issues) > 0
    /\ issues[1].rule_id = "ORG_001"
    /\ Len(OfRule(issues, "MAINT_001")) = 2
    /\ Len(OfRule(issues, "DEPR_001")) = 1
    /\ Len(OfRule(issues, "MAINT_002")) = 2
    /\ OfRule(issues, "DEPR_001")[1].line < OfRule(issues, "MAINT_001")[1].line

\* the path given to main does not exist, or is a file without the .py suffix
BadPath == fs.kind = "missing" \/ (fs.kind = "file" /\ ~endswith(path, DotPy))

\* C9: a bad path ends the run in a fatal error before any analysis: no report
\* is written and the success summary is not printed.
C9_BadPathIsFatal == BadPath => (~output.written /\ stdout = <<>> /\ mpc # "done")

\* C10: the sequence analyze_file returns is the one it returns for a single
\* content the file has had during the call, even when the file is modified
\* meanwhile.
C10_ResultOfOneSnapshot ==
    pc = "ret" => \E c \in seen : issues \in Returns(file_path, c)

====
